---- MODULE Spec2Model ----
(***************************************************************************)
(* neon-monitor (src/monitor.py): a batch poller that observes Solana      *)
(* cluster versions, program deployment slots and GitHub tags, records      *)
(* every new observation in an SQLite ledger (versions.db) and posts one    *)
(* Slack message per un-notified ledger row.                                *)
(*                                                                          *)
(* One run of the script is modelled statement group by statement group;    *)
(* runs follow each other (the scheduler starts the script again after it   *)
(* has exited).  The external services are inputs chosen from small sets.   *)
(***************************************************************************)
EXTENDS Integers, Sequences, FiniteSets, TLC

(* ------------------------------ bounds --------------------------------- *)
\* rows the external services ever make the ledger hold (all tables together)
MaxRows == 2
\* nodes a cluster reports in one get_cluster_nodes() answer
MaxNodes == 2
\* tags a repository lists
MaxTags == 2
\* the count of delivered messages per row saturates here
MaxCount == 2
\* rows the services make the ledger hold while two runs overlap
ConcRows == 1

(* ------------------------ program configuration ------------------------ *)
SOLANA_CLUSTER_ENDPOINTS == <<"devnet", "testnet", "mainnet-beta">>

PROGRAM_ADDRESSES == <<"metaplex">>

GITHUB_ADDRESSES == <<"solana", "spl", "metaplex">>

\* repo.get_tags()[:10]
TagLimit == 10

\* the three tables the statements of monitor.py name
Tables == {"solana_clusters", "github_versions", "programs"}

(* ------------------------------ inputs --------------------------------- *)
None == "None"

Versions == {"v1", "v2"}

Tags == {"t1", "t2"}

\* slot numbers an account reports: zero and a positive one
Slots == {0, 1}

SeqsUpTo(S, n) == UNION {[1 .. k -> S] : k \in 0 .. n}

\* get_cluster_nodes().value: each validator reports a version or None
NodeLists == SeqsUpTo(Versions \cup {None}, MaxNodes)

\* repo.get_tags(): tag names, no name twice (git tag names are unique)
TagLists == {t \in SeqsUpTo(Tags, MaxTags) : \A i, j \in 1 .. Len(t) : t[i] = t[j] => i = j}

\* what get_account_info_json_parsed answers for the program address
PrimaryAnswers == {"raise", "absent", "no_programData", "programData"}

\* what it answers for the programData address: a failure, no account,
\* an account without "slot", or an account carrying a slot number
SecondaryAnswers ==
    {[kind |-> k, slot |-> 0] : k \in {"raise", "absent", "no_slot"}}
        \cup {[kind |-> "slot", slot |-> s] : s \in Slots}

\* what requests.post does: a 2xx response, a response with an error status
\* (returned, not raised), or an exception (connection error, bad URL)
PostOutcomes == {"ok", "http_error", "raise"}

(* ------------------------------- state --------------------------------- *)
VARIABLES
    store,       \* versions.db: "none" (no file), "file_only" (file without tables), "ready"
    db,          \* committed rows of each table, in insertion order
    pc,          \* [fn, at]: the function the run is in and the place in it
    item,        \* index of the loop over clusters / programs / repositories
    versions,    \* the local `versions` / `version` of the collector at hand
    answer,      \* what the service answered for the item at hand: [kind, data]
    lines,       \* cursor.fetchall() of the notifier at hand: keys, in the order returned
    log,         \* outcome of the dispatch of lines[i], for the rows handled so far
    exitStatus,  \* status the run ends with: 0 unless an uncaught exception ends it
    initOk,      \* init_db() returned without raising in this run
    collected,   \* items collected and recorded in this run
    failed,      \* items whose collection raised in this run
    delivered,   \* per table: key -> number of messages Slack accepted for it
    other        \* the process-local state of a second, overlapping run of the script

vars == <<store, db, pc, item, versions, answer, lines, log, exitStatus, initOk, collected,
          failed, delivered, other>>

At(fn, at) == pc = [fn |-> fn, at |-> at]

\* no call of a service is under way
NoAnswer == [kind |-> "-", data |-> <<>>]

\* the process-local state of a run that is about to call init_db()
FreshRun ==
    [pc |-> [fn |-> "init_db", at |-> "-"], item |-> 1, versions |-> <<>>,
     answer |-> NoAnswer, lines |-> <<>>, log |-> <<>>, exitStatus |-> 0,
     initOk |-> FALSE, collected |-> {}, failed |-> {}]

\* the script is started by a scheduler, one run after the other: no second run
NoRun == [FreshRun EXCEPT !.pc = [fn |-> "none", at |-> "-"]]

(* ------------------------- the ledger (SQLite) -------------------------- *)
\* schema.sql: notified defaults to false
DefaultNotified == FALSE

NewRow(key) == [key |-> key, notified |-> DefaultNotified]

\* schema.sql: the natural key columns are UNIQUE
Conflicts(rows, key) == \E i \in 1 .. Len(rows) : rows[i].key = key

\* INSERT OR REPLACE: the conflicting row is deleted, the new one appended
InsertOrReplace(rows, key) ==
    Append(SelectSeq(rows, LAMBDA r : r.key # key), NewRow(key))

\* a plain append: what the statement does on a table without the constraint
InsertAlways(rows, key) == Append(rows, NewRow(key))

\* an upsert: on conflict the row is kept in place with notified set back
InsertOrReset(rows, key) ==
    IF Conflicts(rows, key)
    THEN [i \in 1 .. Len(rows) |-> IF rows[i].key = key THEN NewRow(key) ELSE rows[i]]
    ELSE Append(rows, NewRow(key))

\* INSERT OR IGNORE INTO t(key columns) VALUES (...)
InsertOrIgnore(rows, key) ==
    IF Conflicts(rows, key) THEN rows ELSE Append(rows, NewRow(key))

\* for x in keys: cursor.execute(INSERT OR IGNORE ...); db.commit()
RECURSIVE InsertAll(_, _)
InsertAll(rows, keys) ==
    IF keys = <<>> THEN rows
    ELSE InsertAll(InsertOrIgnore(rows, Head(keys)), Tail(keys))

\* the keys a table holds
KeysIn(rows) == {rows[i].key : i \in 1 .. Len(rows)}

\* the SELECT without its WHERE clause: every row, notified or not
SelectEveryRow(rows) == KeysIn(rows)

\* SELECT key columns FROM t WHERE notified = 0
SelectUnnotified(rows) == {rows[i].key : i \in {j \in 1 .. Len(rows) : ~rows[j].notified}}

\* the statement has no ORDER BY: SQLite may return the rows in any order
Orderings(S) ==
    {s \in [1 .. Cardinality(S) -> S] : \A i, j \in 1 .. Cardinality(S) : s[i] = s[j] => i = j}

\* UPDATE t SET notified=1 WHERE key columns = key
MarkNotified(rows, key) ==
    [i \in 1 .. Len(rows) |->
        IF rows[i].key = key THEN [rows[i] EXCEPT !.notified = TRUE] ELSE rows[i]]

TotalRows == Len(db["solana_clusters"]) + Len(db["github_versions"]) + Len(db["programs"])

\* the services show at most MaxRows distinct observations in all
Fits(table, keys) ==
    Cardinality({keys[i] : i \in 1 .. Len(keys)} \ KeysIn(db[table])) <= MaxRows - TotalRows

(* ----------------------------- collectors ------------------------------ *)
\* the dict `versions` is a sequence of <<version, count>> in insertion order
RECURSIVE Tally(_, _)
Tally(nodes, d) ==
    IF nodes = <<>> THEN d
    ELSE LET v == Head(nodes) IN
         IF v = None THEN Tally(Tail(nodes), d)
         ELSE IF \E i \in 1 .. Len(d) : d[i][1] = v
              THEN Tally(Tail(nodes),
                         [i \in 1 .. Len(d) |->
                             IF d[i][1] = v THEN <<v, d[i][2] + 1>> ELSE d[i]])
              ELSE Tally(Tail(nodes), Append(d, <<v, 1>>))

\* every node counted as a version of its own: None kept, nothing merged
CountEveryNode(nodes) == [i \in 1 .. Len(nodes) |-> <<nodes[i], 1>>]

get_solana_cluster_versions(nodes) == Tally(nodes, <<>>)

\* iterating a dict yields its keys
DictKeys(d) == [i \in 1 .. Len(d) |-> d[i][1]]

Min(a, b) == IF a < b THEN a ELSE b

\* [tag.name for tag in repo.get_tags()[:10]]
get_github_versions(tags) == SubSeq(tags, 1, Min(Len(tags), TagLimit))

\* raised: an exception leaves the function; otherwise value is the result,
\* <<>> for None and <<s>> for the slot s
get_program_last_update(primary, secondary) ==
    IF primary \in {"raise", "absent"} THEN [raised |-> TRUE, value |-> <<>>]
    ELSE IF primary = "no_programData" THEN [raised |-> FALSE, value |-> <<>>]
    ELSE IF secondary.kind \in {"raise", "absent"} THEN [raised |-> TRUE, value |-> <<>>]
    ELSE IF secondary.kind = "no_slot" THEN [raised |-> FALSE, value |-> <<>>]
    ELSE [raised |-> FALSE, value |-> <<secondary.slot>>]

\* what the two lookups of get_program_last_update found, in one word
AnswerKind(primary, secondary) ==
    IF primary # "programData" THEN primary
    ELSE IF secondary.kind \in {"raise", "absent"} THEN "programData_" \o secondary.kind
    ELSE secondary.kind

\* `if version:` -- None and 0 are both false
Truthy(version) == version # <<>> /\ version[1] # 0

(* ------------------------------ notifier ------------------------------- *)
NotifierTable(fn) ==
    CASE fn = "notify_solana_cluster_versions" -> "solana_clusters"
      [] fn = "notify_github_versions" -> "github_versions"
      [] fn = "notify_programs_version" -> "programs"

Notifiers ==
    {"notify_solana_cluster_versions", "notify_github_versions", "notify_programs_version"}

\* what runs after each notifier: check_solana calls its notifier itself,
\* __main__ calls the other two last
AfterNotifier(fn) ==
    CASE fn = "notify_solana_cluster_versions" -> [fn |-> "check_chain_programs", at |-> "get"]
      [] fn = "notify_github_versions" -> [fn |-> "notify_programs_version", at |-> "select"]
      [] fn = "notify_programs_version" -> [fn |-> "exit", at |-> "-"]

\* the except clause ends the pass at the first failed dispatch
LoopDoneAbort(ls, lg) ==
    Len(lg) = Len(ls) \/ (lg # <<>> /\ lg[Len(lg)] = "raise")

\* for line in cursor.fetchall(): try ... except Exception: print(...)
LoopDone(ls, lg) == Len(lg) = Len(ls)

\* a pass whose UPDATEs are never committed
CommitNothing(rows, ls, lg) == rows

\* the UPDATEs of the pass, made durable by db.commit()
RECURSIVE CommitPass(_, _, _)
CommitPass(rows, ls, lg) ==
    IF lg = <<>> THEN rows
    ELSE CommitPass(IF Head(lg) = "raise" THEN rows ELSE MarkNotified(rows, Head(ls)),
                    Tail(ls), Tail(lg))

Count(table, key) ==
    IF key \in DOMAIN delivered[table] THEN delivered[table][key] ELSE 0

Deliver(table, key) ==
    [delivered EXCEPT ![table] =
        [k \in DOMAIN delivered[table] \cup {key} |->
            IF k = key THEN Min(Count(table, key) + 1, MaxCount) ELSE delivered[table][k]]]

(* ------------------------------- Init ---------------------------------- *)
Init ==
    /\ store = "none"
    /\ db = [t \in Tables |-> <<>>]
    /\ pc = [fn |-> "init_db", at |-> "-"]
    /\ item = 1
    /\ versions = <<>>
    /\ answer = NoAnswer
    /\ lines = <<>>
    /\ log = <<>>
    /\ exitStatus = 0
    /\ initOk = FALSE
    /\ collected = {}
    /\ failed = {}
    /\ delivered = [t \in Tables |-> <<>>]
    /\ other = NoRun

(* ------------------------------ actions -------------------------------- *)
\* an uncaught exception: traceback, exit status 1
Raise ==
    /\ pc' = [fn |-> "exit", at |-> "-"]
    /\ exitStatus' = 1
    /\ item' = 1
    /\ versions' = <<>>
    /\ lines' = <<>>
    /\ log' = <<>>

Goto(fn, at, i) ==
    /\ pc' = [fn |-> fn, at |-> at]
    /\ item' = i
    /\ versions' = <<>>
    /\ answer' = NoAnswer
    /\ UNCHANGED <<lines, log, exitStatus>>

\* the scheduler starts the script again
StartRun ==
    /\ At("exit", "-")
    /\ pc' = [fn |-> "init_db", at |-> "-"]
    /\ initOk' = FALSE
    /\ collected' = {}
    /\ failed' = {}
    /\ exitStatus' = 0
    /\ UNCHANGED <<store, db, item, versions, answer, lines, log, delivered, other>>

InitDb ==
    /\ At("init_db", "-")
    /\ UNCHANGED <<db, collected, failed, delivered, other>>
    /\ IF store # "none"
       THEN \* versions.db exists: nothing is done
            /\ initOk' = TRUE
            /\ Goto("check_solana", "get", 1)
            /\ UNCHANGED store
       ELSE \/ \* connect, executescript(schema.sql), commit
               /\ store' = "ready"
               /\ initOk' = TRUE
               /\ Goto("check_solana", "get", 1)
            \/ \* connect raises, or it creates the file and
               \* open("schema.sql") or executescript raises
               /\ store' \in {"none", "file_only"}
               /\ initOk' = FALSE
               /\ answer' = NoAnswer
               /\ Raise

\* versions = get_solana_cluster_versions(solana_client)
GetSolanaClusterVersions ==
    /\ At("check_solana", "get")
    /\ UNCHANGED <<store, db, initOk, collected, delivered, other>>
    /\ \/ /\ failed' = failed \cup {<<"check_solana", item>>}
          /\ answer' = [kind |-> "raise", data |-> <<>>]
          /\ Raise
       \/ \E nodes \in NodeLists :
            LET d == get_solana_cluster_versions(nodes)
                cluster == SOLANA_CLUSTER_ENDPOINTS[item]
            IN  /\ Fits("solana_clusters", [i \in 1 .. Len(d) |-> <<cluster, d[i][1]>>])
                /\ versions' = d
                /\ answer' = [kind |-> "nodes", data |-> nodes]
                /\ pc' = [fn |-> "check_solana", at |-> "save"]
                /\ UNCHANGED <<item, lines, log, exitStatus, failed>>

\* save_solana_cluster_versions(cluster_name, versions)
SaveSolanaClusterVersions ==
    /\ At("check_solana", "save")
    /\ UNCHANGED <<store, initOk, failed, delivered, other>>
    /\ LET cluster == SOLANA_CLUSTER_ENDPOINTS[item]
           ks == DictKeys(versions)
           keys == [i \in 1 .. Len(ks) |-> <<cluster, ks[i]>>]
       IN  IF store # "ready" /\ keys # <<>>
           THEN \* no such table
                /\ Raise
                /\ answer' = NoAnswer
                /\ UNCHANGED <<db, collected>>
           ELSE /\ db' = [db EXCEPT !["solana_clusters"] = InsertAll(@, keys)]
                /\ collected' = collected \cup {<<"check_solana", item>>}
                /\ IF item < Len(SOLANA_CLUSTER_ENDPOINTS)
                   THEN Goto("check_solana", "get", item + 1)
                   ELSE Goto("notify_solana_cluster_versions", "select", 1)

\* cursor.execute(SELECT ... WHERE notified = 0); cursor.fetchall()
NotifySelect(fn) ==
    /\ At(fn, "select")
    /\ UNCHANGED <<store, db, initOk, collected, failed, delivered, other>>
    /\ UNCHANGED answer
    /\ IF store # "ready"
       THEN Raise
       ELSE /\ lines' \in Orderings(SelectUnnotified(db[NotifierTable(fn)]))
            /\ log' = <<>>
            /\ pc' = [fn |-> fn, at |-> "loop"]
            /\ UNCHANGED <<item, versions, exitStatus>>

\* send_slack_notification(...); cursor.execute(UPDATE ...), inside try
NotifyPost(fn, outcome) ==
    /\ At(fn, "loop")
    /\ ~LoopDone(lines, log)
    /\ log' = Append(log, outcome)
    /\ delivered' = IF outcome = "ok"
                    THEN Deliver(NotifierTable(fn), lines[Len(log) + 1])
                    ELSE delivered
    /\ UNCHANGED <<store, db, pc, item, versions, answer, lines, exitStatus, initOk,
                   collected, failed, other>>

NotifyDispatch(fn) == \E outcome \in PostOutcomes : NotifyPost(fn, outcome)

\* db.commit(); db.close()
NotifyCommit(fn) ==
    /\ At(fn, "loop")
    /\ LoopDone(lines, log)
    /\ db' = [db EXCEPT ![NotifierTable(fn)] = CommitPass(@, lines, log)]
    /\ pc' = AfterNotifier(fn)
    /\ item' = 1
    /\ versions' = <<>>
    /\ lines' = <<>>
    /\ log' = <<>>
    /\ UNCHANGED <<store, answer, exitStatus, initOk, collected, failed, delivered, other>>

\* the loops of check_chain_programs run over clusters, then programs
PairCluster(i) == SOLANA_CLUSTER_ENDPOINTS[((i - 1) \div Len(PROGRAM_ADDRESSES)) + 1]

PairProgram(i) == PROGRAM_ADDRESSES[((i - 1) % Len(PROGRAM_ADDRESSES)) + 1]

NumPairs == Len(SOLANA_CLUSTER_ENDPOINTS) * Len(PROGRAM_ADDRESSES)

\* version = get_program_last_update(solana_client, program_address)
GetProgramLastUpdate ==
    /\ At("check_chain_programs", "get")
    /\ UNCHANGED <<store, db, initOk, collected, delivered, other>>
    /\ \E primary \in PrimaryAnswers, secondary \in SecondaryAnswers :
         LET result == get_program_last_update(primary, secondary)
             version == result.value
         IN
         /\ answer' = [kind |-> AnswerKind(primary, secondary),
                        data |-> IF AnswerKind(primary, secondary) = "slot"
                                 THEN <<secondary.slot>> ELSE <<>>]
         /\ IF result.raised
            THEN /\ failed' = failed \cup {<<"check_chain_programs", item>>}
                 /\ Raise
            ELSE /\ Fits("programs",
                         IF Truthy(version)
                         THEN <<(<<PairProgram(item), PairCluster(item), version[1]>>)>>
                         ELSE <<>>)
                 /\ versions' = version
                 /\ pc' = [fn |-> "check_chain_programs", at |-> "save"]
                 /\ UNCHANGED <<item, lines, log, exitStatus, failed>>

\* the key save_program_version is called with, if it is called
ProgramKeys ==
    IF Truthy(versions)
    THEN <<(<<PairProgram(item), PairCluster(item), versions[1]>>)>>
    ELSE <<>>

\* if version: save_program_version(program_name, version, cluster_name)
SaveProgramVersion ==
    /\ At("check_chain_programs", "save")
    /\ UNCHANGED <<store, initOk, failed, delivered, other>>
    /\ IF Truthy(versions) /\ store # "ready"
       THEN /\ Raise
            /\ answer' = NoAnswer
            /\ UNCHANGED <<db, collected>>
       ELSE /\ db' = IF Truthy(versions)
                     THEN [db EXCEPT !["programs"] =
                             InsertOrIgnore(@, <<PairProgram(item), PairCluster(item),
                                                 versions[1]>>)]
                     ELSE db
            /\ collected' = collected \cup {<<"check_chain_programs", item>>}
            /\ IF item < NumPairs
               THEN Goto("check_chain_programs", "get", item + 1)
               ELSE Goto("check_github_versions", "get", 1)

\* versions = get_github_versions(github_client, GITHUB_ADDRESSES[program_name])
GetGithubVersions ==
    /\ At("check_github_versions", "get")
    /\ UNCHANGED <<store, db, initOk, collected, delivered, other>>
    /\ \/ /\ failed' = failed \cup {<<"check_github_versions", item>>}
          /\ answer' = [kind |-> "raise", data |-> <<>>]
          /\ Raise
       \/ \E tags \in TagLists :
            LET vs == get_github_versions(tags)
                name == GITHUB_ADDRESSES[item]
            IN  /\ Fits("github_versions", [i \in 1 .. Len(vs) |-> <<name, vs[i]>>])
                /\ versions' = vs
                /\ answer' = [kind |-> "tags", data |-> tags]
                /\ pc' = [fn |-> "check_github_versions", at |-> "save"]
                /\ UNCHANGED <<item, lines, log, exitStatus, failed>>

\* save_github_versions(program_name, versions)
SaveGithubVersions ==
    /\ At("check_github_versions", "save")
    /\ UNCHANGED <<store, initOk, failed, delivered, other>>
    /\ LET name == GITHUB_ADDRESSES[item]
           keys == [i \in 1 .. Len(versions) |-> <<name, versions[i]>>]
       IN  IF store # "ready" /\ keys # <<>>
           THEN /\ Raise
                /\ answer' = NoAnswer
                /\ UNCHANGED <<db, collected>>
           ELSE /\ db' = [db EXCEPT !["github_versions"] = InsertAll(@, keys)]
                /\ collected' = collected \cup {<<"check_github_versions", item>>}
                /\ IF item < Len(GITHUB_ADDRESSES)
                   THEN Goto("check_github_versions", "get", item + 1)
                   ELSE Goto("notify_github_versions", "select", 1)

Next ==
    \/ StartRun
    \/ InitDb
    \/ GetSolanaClusterVersions
    \/ SaveSolanaClusterVersions
    \/ GetProgramLastUpdate
    \/ SaveProgramVersion
    \/ GetGithubVersions
    \/ SaveGithubVersions
    \/ \E fn \in Notifiers : NotifySelect(fn)
    \/ \E fn \in Notifiers : NotifyDispatch(fn)
    \/ \E fn \in Notifiers : NotifyCommit(fn)

Spec == Init /\ [][Next]_vars

\* runs keep being scheduled and every step of a run is taken; a row whose
\* dispatch is attempted again and again is at some attempt accepted by Slack
DispatchOk(fn, key) ==
    /\ NotifyPost(fn, "ok")
    /\ lines[Len(log) + 1] = key

KeysOf(table) ==
    CASE table = "solana_clusters" ->
            {<<SOLANA_CLUSTER_ENDPOINTS[c], v>> :
                c \in 1 .. Len(SOLANA_CLUSTER_ENDPOINTS), v \in Versions}
      [] table = "github_versions" ->
            {<<GITHUB_ADDRESSES[r], t>> : r \in 1 .. Len(GITHUB_ADDRESSES), t \in Tags}
      [] table = "programs" ->
            {<<PairProgram(i), PairCluster(i), s>> : i \in 1 .. NumPairs, s \in Slots}

FairSpec ==
    /\ Init
    /\ [][Next]_vars
    /\ WF_vars(Next)
    /\ \A fn \in Notifiers : \A key \in KeysOf(NotifierTable(fn)) : SF_vars(DispatchOk(fn, key))

\* the process is killed (SIGKILL, power loss, container stopped): the
\* UPDATEs of a pass that db.commit() has not made durable are rolled back
\* when versions.db is opened next; the messages Slack accepted stay sent
Interrupt ==
    /\ ~At("exit", "-")
    /\ Raise
    /\ answer' = NoAnswer
    /\ UNCHANGED <<store, db, initOk, collected, failed, delivered, other>>

CrashNext == Next \/ Interrupt

CrashSpec == Init /\ [][CrashNext]_vars

(* ------------------------------ properties ----------------------------- *)
IsNotified(table, key) ==
    \E i \in 1 .. Len(db[table]) : db[table][i].key = key /\ db[table][i].notified

NoDuplicateKeys(rows) == \A i, j \in 1 .. Len(rows) : rows[i].key = rows[j].key => i = j

InPass(fn) == At(fn, "loop")

Exited == At("exit", "-")

\* the table and the keys the recorder at hand is called with
SaveTable ==
    CASE pc.fn = "check_solana" -> "solana_clusters"
      [] pc.fn = "check_github_versions" -> "github_versions"
      [] OTHER -> "programs"

SaveKeys ==
    CASE pc.fn = "check_solana" ->
            {<<SOLANA_CLUSTER_ENDPOINTS[item], versions[i][1]>> : i \in 1 .. Len(versions)}
      [] pc.fn = "check_github_versions" ->
            {<<GITHUB_ADDRESSES[item], versions[i]>> : i \in 1 .. Len(versions)}
      [] OTHER -> {ProgramKeys[i] : i \in 1 .. Len(ProgramKeys)}

(* ------------------------- two overlapping runs ------------------------ *)
\* Both runs open versions.db with sqlite3.connect (rollback journal, busy
\* timeout 5 s).  The run whose local state is in pc, item, ... is the one
\* taking steps; the state of the run waiting meanwhile is in `other`.

\* the waiting run has executed an UPDATE in its pass and not yet committed:
\* its connection holds the write lock of versions.db
OtherHoldsLock ==
    /\ other.pc.at = "loop"
    /\ \E i \in 1 .. Len(other.log) : other.log[i] # "raise"

\* every step of a run but its start
RunStep ==
    \/ InitDb
    \/ GetSolanaClusterVersions
    \/ SaveSolanaClusterVersions
    \/ GetProgramLastUpdate
    \/ SaveProgramVersion
    \/ GetGithubVersions
    \/ SaveGithubVersions
    \/ \E fn \in Notifiers : NotifySelect(fn)
    \/ \E fn \in Notifiers : NotifyDispatch(fn)
    \/ \E fn \in Notifiers : NotifyCommit(fn)

\* a step that executes an INSERT or an UPDATE needs the write lock
ConcStep ==
    /\ RunStep
    /\ TotalRows' <= ConcRows
    /\ OtherHoldsLock =>
          /\ ~(pc.at = "save" /\ SaveKeys # {} /\ store = "ready")
          /\ ~(pc.at = "loop" /\ Len(log') > Len(log) /\ log'[Len(log')] # "raise")

\* cursor.execute(INSERT OR IGNORE ...) waits for the lock until the busy
\* timeout and raises sqlite3.OperationalError: database is locked; the
\* save_* functions and their callers do not catch it
SaveLocked ==
    /\ pc.at = "save" /\ SaveKeys # {} /\ store = "ready"
    /\ OtherHoldsLock
    /\ Raise
    /\ answer' = NoAnswer
    /\ UNCHANGED <<store, db, initOk, collected, failed, delivered, other>>

\* send_slack_notification returns, then cursor.execute(UPDATE ...) raises
\* database is locked; the except clause of the loop prints it
NotifyPostLocked(fn, outcome) ==
    /\ At(fn, "loop")
    /\ ~LoopDone(lines, log)
    /\ OtherHoldsLock
    /\ log' = Append(log, "raise")
    /\ delivered' = IF outcome = "ok"
                    THEN Deliver(NotifierTable(fn), lines[Len(log) + 1])
                    ELSE delivered
    /\ UNCHANGED <<store, db, pc, item, versions, answer, lines, exitStatus, initOk,
                   collected, failed, other>>

\* the operating system lets the other run go on; the runs are interleaved
\* at their store operations (a pending service call touches nothing shared)
Switch ==
    /\ other.pc.fn \notin {"none", "exit"}
    /\ pc.at # "get"
    /\ pc' = other.pc
    /\ item' = other.item
    /\ versions' = other.versions
    /\ answer' = other.answer
    /\ lines' = other.lines
    /\ log' = other.log
    /\ exitStatus' = other.exitStatus
    /\ initOk' = other.initOk
    /\ collected' = other.collected
    /\ failed' = other.failed
    /\ other' = [pc |-> pc, item |-> item, versions |-> versions, answer |-> answer,
                 lines |-> lines, log |-> log, exitStatus |-> exitStatus,
                 initOk |-> initOk, collected |-> collected, failed |-> failed]
    /\ UNCHANGED <<store, db, delivered>>

\* two runs are started at the same time on a machine without versions.db
ConcInit ==
    /\ store = "none"
    /\ db = [t \in Tables |-> <<>>]
    /\ pc = FreshRun.pc
    /\ item = FreshRun.item
    /\ versions = FreshRun.versions
    /\ answer = FreshRun.answer
    /\ lines = FreshRun.lines
    /\ log = FreshRun.log
    /\ exitStatus = FreshRun.exitStatus
    /\ initOk = FreshRun.initOk
    /\ collected = FreshRun.collected
    /\ failed = FreshRun.failed
    /\ delivered = [t \in Tables |-> <<>>]
    /\ other = FreshRun

ConcNext ==
    \/ ConcStep
    \/ SaveLocked
    \/ \E fn \in Notifiers : \E outcome \in {"ok", "http_error"} : NotifyPostLocked(fn, outcome)
    \/ Switch

ConcSpec == ConcInit /\ [][ConcNext]_vars

\* C1: no row is delivered twice: Slack accepts at most one message per ledger
\* row, no table holds a key twice, and a notifier pass never dispatches a row
\* that is already notified in the ledger.
C1_AtMostOneDelivery ==
    /\ \A t \in Tables : \A k \in DOMAIN delivered[t] : delivered[t][k] <= 1
    /\ \A t \in Tables : NoDuplicateKeys(db[t])
    /\ \A fn \in Notifiers :
         InPass(fn) =>
            \A i \in 1 .. Len(lines) :
                IsNotified(NotifierTable(fn), lines[i]) => i <= Len(log)

\* a later run has observed a key again whose row is notified and was
\* delivered once, together with a key that has no row yet
C1_Witness ==
    /\ pc.at = "save" /\ store = "ready"
    /\ \E k \in SaveKeys : IsNotified(SaveTable, k) /\ Count(SaveTable, k) = 1
    /\ SaveKeys \ KeysIn(db[SaveTable]) # {}

\* C2: a row is notified only if Slack accepted a message for that row; a
\* dispatch the channel answers with a failure leaves the row un-notified.
C2_NotifiedOnlyAfterSuccess ==
    \A t \in Tables : \A i \in 1 .. Len(db[t]) :
        db[t][i].notified => Count(t, db[t][i].key) >= 1

AllNotified == \A t \in Tables : \A i \in 1 .. Len(db[t]) : db[t][i].notified

\* C3: every row ever inserted is eventually notified (runs keep being
\* scheduled, and a row dispatched again and again is eventually accepted).
\* Rows are never removed, notified never reverts and the keys are finitely
\* many, so "each row is eventually notified" is "from some point on, every
\* row is notified".
C3_NoMissedNotification == <>[]AllNotified

AllItems ==
    {<<"check_solana", i>> : i \in 1 .. Len(SOLANA_CLUSTER_ENDPOINTS)}
        \cup {<<"check_chain_programs", i>> : i \in 1 .. NumPairs}
        \cup {<<"check_github_versions", i>> : i \in 1 .. Len(GITHUB_ADDRESSES)}

\* C4: when the collection of an item failed in a run, every other item of the
\* three collectors has been collected and recorded by the end of that run.
C4_CollectorIsolation ==
    (Exited /\ failed # {}) => collected \cup failed = AllItems

\* C5: a notifier pass ends only after every row of its scan was dispatched
\* once, whatever failed on the way; every row whose dispatch succeeded is
\* notified after the pass, every row whose dispatch raised is not.
C5_NotifierIsolation ==
    [][\A fn \in Notifiers :
          (InPass(fn) /\ pc' # pc) =>
             /\ Len(log) = Len(lines)
             /\ \A i, j \in 1 .. Len(lines) : lines[i] = lines[j] => i = j
             /\ \A i \in 1 .. Len(lines) :
                  /\ log[i] = "ok" => \E r \in 1 .. Len(db'[NotifierTable(fn)]) :
                                          /\ db'[NotifierTable(fn)][r].key = lines[i]
                                          /\ db'[NotifierTable(fn)][r].notified
                  /\ log[i] = "raise" => \A r \in 1 .. Len(db'[NotifierTable(fn)]) :
                                          db'[NotifierTable(fn)][r].key = lines[i]
                                             => ~db'[NotifierTable(fn)][r].notified]_vars

\* a pass went on after a failed dispatch and the next row was accepted
C5_Witness ==
    \E fn \in Notifiers :
        InPass(fn) /\ Len(lines) = 2 /\ Len(log) = 2 /\ log[1] = "raise" /\ log[2] = "ok"

\* C6: no table ever holds a key twice; a recorder call on the initialised
\* store raises nothing, leaves every existing row as it was, and adds exactly
\* one row, with notified = false, for each key that had no row.
C6_IdempotentInsert ==
    [][/\ \A t \in Tables : NoDuplicateKeys(db'[t])
       /\ (pc.at = "save" /\ store = "ready") =>
            LET old == db[SaveTable]
                new == db'[SaveTable]
                fresh == SaveKeys \ KeysIn(old)
            IN  /\ pc'.fn # "exit"
                /\ Len(new) = Len(old) + Cardinality(fresh)
                /\ SubSeq(new, 1, Len(old)) = old
                /\ {new[i].key : i \in Len(old) + 1 .. Len(new)} = fresh
                /\ \A i \in Len(old) + 1 .. Len(new) : ~new[i].notified
                /\ \A t \in Tables \ {SaveTable} : db'[t] = db[t]]_vars

\* a recorder is about to record a key that has a row and a key that has none
C6_Witness ==
    /\ pc.at = "save" /\ store = "ready"
    /\ SaveKeys \cap KeysIn(db[SaveTable]) # {}
    /\ SaveKeys \ KeysIn(db[SaveTable]) # {}

\* C7: no step removes a row, changes a key or the order of the rows, or
\* takes notified back from true to false.
C7_AppendOnlyMonotone ==
    [][\A t \in Tables :
          /\ Len(db[t]) <= Len(db'[t])
          /\ \A i \in 1 .. Len(db[t]) :
               /\ db'[t][i].key = db[t][i].key
               /\ db[t][i].notified => db'[t][i].notified]_vars

\* a run has ended with a row appended behind a row whose flag was flipped
C7_Witness ==
    /\ Exited
    /\ \E t \in Tables :
         Len(db[t]) = 2 /\ db[t][1].notified /\ ~db[t][2].notified

\* C8: a run ends with exit status 0 exactly when init_db succeeded in it.
C8_ExitStatus == Exited => (exitStatus = 0 <=> initOk)

\* C9: whenever init_db has returned without failure, the tables exist.
C9_InitCreatesTables == initOk => store = "ready"

Position(rows, key) == CHOOSE i \in 1 .. Len(rows) : rows[i].key = key

\* C10: the rows a notifier fetched are in the order they were inserted.
C10_FetchOrder ==
    \A fn \in Notifiers :
        InPass(fn) =>
            \A i, j \in 1 .. Len(lines) :
                i < j => Position(db[NotifierTable(fn)], lines[i])
                            < Position(db[NotifierTable(fn)], lines[j])

\* C11: a pair whose lookup finds no parsed account, no metadata field or no
\* programData reference is skipped: the collector returns no observation,
\* the run does not fail and goes on to record nothing for the pair.
C11_SkippedProgram ==
    answer.kind \in {"absent", "no_programData"} =>
        /\ At("check_chain_programs", "save")
        /\ ~Truthy(versions)

\* C19: a pair whose programData account carries slot s yields the
\* observation (program, cluster, s), and the recorder holds a row for it
\* after the pair was handled, for every s >= 0.
C19_SlotRecorded ==
    [][(At("check_chain_programs", "save") /\ answer.kind = "slot" /\ store = "ready") =>
          /\ versions = answer.data
          /\ <<PairProgram(item), PairCluster(item), answer.data[1]>>
                \in KeysIn(db'["programs"])]_vars

\* C17: the cluster-version collector returns exactly the distinct versions
\* the nodes report, each once, nodes without a version left out; after the
\* recorder ran, the cluster has exactly one row for each of them and no new
\* row for anything else.
C17_DistinctVersions ==
    [][(At("check_solana", "save") /\ store = "ready") =>
          LET seen == {answer.data[i] : i \in 1 .. Len(answer.data)} \ {None}
              cluster == SOLANA_CLUSTER_ENDPOINTS[item]
              new == db'["solana_clusters"]
          IN  /\ {versions[i][1] : i \in 1 .. Len(versions)} = seen
              /\ Len(versions) = Cardinality(seen)
              /\ \A v \in seen :
                    Cardinality({r \in 1 .. Len(new) : new[r].key = <<cluster, v>>}) = 1
              /\ KeysIn(new) \ KeysIn(db["solana_clusters"])
                    \subseteq {<<cluster, v>> : v \in seen}]_vars

\* two nodes of a cluster reported the same version, which has no row yet
C17_Witness ==
    /\ At("check_solana", "save") /\ store = "ready"
    /\ \E i, j \in 1 .. Len(answer.data) :
          /\ i # j /\ answer.data[i] = answer.data[j] /\ answer.data[i] # None
          /\ <<SOLANA_CLUSTER_ENDPOINTS[item], answer.data[i]>>
                \notin KeysIn(db["solana_clusters"])

\* C13: no dispatch of any table is attempted before every item of the three
\* collectors has been collected and recorded in the run.
C13_CollectAllThenNotify ==
    \A fn \in Notifiers : (InPass(fn) /\ log # <<>>) => collected = AllItems

\* C15: a recorder call dispatches nothing (no message is accepted, no
\* dispatch is logged) and every row the table held keeps its key and its
\* notified flag, also when the key of a notified row is observed again.
C15_RecorderFrame ==
    [][pc.at = "save" =>
          /\ delivered' = delivered
          /\ log' = <<>> /\ lines' = <<>>
          /\ \A t \in Tables : \A i \in 1 .. Len(db[t]) :
                /\ i <= Len(db'[t])
                /\ db'[t][i] = db[t][i]]_vars

\* a recorder is about to record a key whose row is already notified
C15_Witness ==
    /\ pc.at = "save" /\ store = "ready"
    /\ \E k \in SaveKeys : IsNotified(SaveTable, k)

SolanaItems == {<<"check_solana", i>> : i \in 1 .. Len(SOLANA_CLUSTER_ENDPOINTS)}

\* C18: the cluster-version notifier runs as soon as the last cluster is
\* recorded, before the other collectors: its pass fetches every un-notified
\* cluster-version row, dispatches each and marks every row whose dispatch did
\* not raise, and only then the program collector starts; whatever the
\* program and repository collectors do afterwards, failing included, leaves
\* the cluster-version rows as the pass left them.
C18_ClusterNotifierIndependent ==
    [][LET fn == "notify_solana_cluster_versions"
           t == "solana_clusters"
       IN  /\ (At("check_solana", "save") /\ item = Len(SOLANA_CLUSTER_ENDPOINTS)
                  /\ pc'.fn # "exit")
                 => pc' = [fn |-> fn, at |-> "select"] /\ SolanaItems \subseteq collected'
           /\ (At(fn, "select") /\ store = "ready")
                 => /\ InPass(fn)'
                    /\ {lines'[i] : i \in 1 .. Len(lines')} = SelectUnnotified(db[t])
           /\ (InPass(fn) /\ pc' # pc)
                 => /\ Len(log) = Len(lines)
                    /\ \A i \in 1 .. Len(lines) :
                          log[i] # "raise" =>
                             \E r \in 1 .. Len(db'[t]) :
                                db'[t][r].key = lines[i] /\ db'[t][r].notified
                    /\ pc' = [fn |-> "check_chain_programs", at |-> "get"]
           /\ pc.fn \in {"check_chain_programs", "check_github_versions"}
                 => SolanaItems \subseteq collected /\ db'[t] = db[t]]_vars

\* a run has ended in failure in the program or repository collector, with
\* every cluster recorded and every cluster-version row delivered and marked
C18_Witness ==
    /\ Exited /\ exitStatus = 1
    /\ failed # {} /\ failed \cap SolanaItems = {}
    /\ SolanaItems \subseteq collected
    /\ db["solana_clusters"] # <<>>
    /\ \A i \in 1 .. Len(db["solana_clusters"]) :
          /\ db["solana_clusters"][i].notified
          /\ Count("solana_clusters", db["solana_clusters"][i].key) = 1

\* the functions __main__ runs after the pass of fn, in the same run
RunsAfter(fn) ==
    CASE fn = "notify_solana_cluster_versions" ->
            {"check_chain_programs", "check_github_versions", "notify_github_versions",
             "notify_programs_version"}
      [] fn = "notify_github_versions" -> {"notify_programs_version"}
      [] fn = "notify_programs_version" -> {}

\* C14: in a run that reaches completion every table is drained: when the
\* pass of a table ends, its un-notified rows are exactly the rows of the pass
\* whose dispatch failed (none if every dispatch succeeded), and nothing the
\* run does after the pass changes the table, so this is what the run ends
\* with.
C14_CompleteRunDrains ==
    [][\A fn \in Notifiers :
          /\ (InPass(fn) /\ pc' # pc) =>
                SelectUnnotified(db'[NotifierTable(fn)])
                    = {lines[i] : i \in {j \in 1 .. Len(lines) : log[j] # "ok"}}
          /\ pc.fn \in RunsAfter(fn) =>
                db'[NotifierTable(fn)] = db[NotifierTable(fn)]]_vars

\* C12: after an interruption, a notifier pass dispatches again at most one
\* row for which Slack has already accepted a message.
C12_AtMostOneRedispatch ==
    \A fn \in Notifiers :
        InPass(fn) =>
            Cardinality({i \in Len(log) + 1 .. Len(lines) :
                            Count(NotifierTable(fn), lines[i]) >= 1}) <= 1

\* C16: when two runs overlap, no table ever holds a key twice, no notified
\* flag reverts to false, and a recorder call on the initialised store does
\* not end the run that makes it.
C16_OverlapSafe ==
    [][/\ \A t \in Tables :
            /\ NoDuplicateKeys(db'[t])
            /\ \A i \in 1 .. Len(db[t]) :
                  /\ i <= Len(db'[t])
                  /\ db'[t][i].key = db[t][i].key
                  /\ db[t][i].notified => db'[t][i].notified
       /\ (pc.at = "save" /\ store = "ready" /\ other' = other) => pc'.fn # "exit"]_vars

====
